---- MODULE Spec2Model ----
(***************************************************************************)
(* Model of GomokuBootcamp (src/gomoku_bootcamp.py): the board, the        *)
(* win detector _check_win, the move engine verify_score (text parsing     *)
(* followed by the legality checks, the placement, the win check, the draw *)
(* check and the turn switch) and case_generator.                          *)
(*                                                                         *)
(* A board is a list of rows, board[r][c], with 0 = empty, 1 = player 1    *)
(* (black), 2 = player 2 (white).  An identity is the dict the caller      *)
(* holds, a record whose fields are the keys the dict has.  Scores are the *)
(* floats -1.0, -10.0, 100.0, 0.0, 1.0 written as integers.                *)
(***************************************************************************)
EXTENDS Integers, Sequences, FiniteSets, TLC

\* ---------------------------------------------------------------- bounds
\* board_size of the engine under test (the constructor's parameter).
N == 9
\* longest arm of stones laid on each side of the target cell of an input.
MaxRun == 4
\* most answers given to one game where the answers are recorded.
MaxAnswers == 3

\* ------------------------------------------------------------- constants
\* range(1, 5): the detector looks at most 4 cells away on each side.
Reach == 4
\* count >= 5
WinLength == 5

Players == {1, 2}
Idx == 0..(N - 1)
\* 'winner': None
None == 0
\* no match object, no coordinate pair
NoMatch == <<>>

\* ------------------------------------------------------------ the board
\* [[0 for _ in range(board_size)] for _ in range(board_size)]
NewBoard(board_size) ==
    [r \in 0..(board_size - 1) |-> [c \in 0..(board_size - 1) |-> 0]]

\* len(list)
BoardLen(board) == Cardinality(DOMAIN board)

\* A Python subscript list[i] is defined for -len(list) <= i < len(list)
\* and counts a negative i from the end; any other i raises IndexError.
HasItem(list, i) == -BoardLen(list) <= i /\ i < BoardLen(list)
Position(list, i) == IF i < 0 THEN i + BoardLen(list) ELSE i
Item(list, i) == list[Position(list, i)]

\* Place with the subscripts swapped: new_board[col][row] = current_player.
PlaceSwapped(board, row, col, player) ==
    [board EXCEPT ![Position(board, col)] =
        [@ EXCEPT ![Position(@, row)] = player]]

\* new_board = copy.deepcopy(board); new_board[row][col] = current_player
Place(board, row, col, player) ==
    [board EXCEPT ![Position(board, row)] =
        [@ EXCEPT ![Position(@, col)] = player]]

\* PlaceOnCopy without the copy (new_board = board): the two names are one
\* list, and the stone shows in the list that was passed in.
PlaceOnAlias(board, row, col, player) ==
    [new_board |-> Place(board, row, col, player),
     board |-> Place(board, row, col, player)]

\* The two lists after new_board = copy.deepcopy(board) and
\* new_board[row][col] = current_player: the copy holds the stone, the list
\* that was passed in is as it was.
PlaceOnCopy(board, row, col, player) ==
    [new_board |-> Place(board, row, col, player),
     board |-> board]

\* IsFull with the comparison written cell == 0.
IsFullOfEmpty(board) ==
    \A r \in DOMAIN board : \A c \in DOMAIN board[r] : board[r][c] = 0

\* IsFull with any in place of all.
IsFullAny(board) ==
    \E r \in DOMAIN board : \E c \in DOMAIN board[r] : board[r][c] # 0

\* all(cell != 0 for row in new_board for cell in row)
IsFull(board) ==
    \A r \in DOMAIN board : \A c \in DOMAIN board[r] : board[r][c] # 0

\* ------------------------------------------------------ the win detector
directions == << <<0, 1>>, <<1, 0>>, <<1, 1>>, <<1, -1>> >>

\* One of the two inner loops of _check_win: for i in range(1, 5), step
\* i cells from (r, c) along (dr, dc); add one per cell that is on the
\* board and holds player; break at the first cell that is not.
\* Extend with the loop written range(1, 4): one cell short on each side.
RECURSIVE ExtendThree(_, _, _, _, _, _, _, _)
ExtendThree(board, player, r, c, dr, dc, board_size, i) ==
    IF i > Reach - 1
    THEN 0
    ELSE LET nr == r + dr * i
             nc == c + dc * i
         IN  IF /\ 0 <= nr /\ nr < board_size
                /\ 0 <= nc /\ nc < board_size
                /\ board[nr][nc] = player
             THEN 1 + ExtendThree(board, player, r, c, dr, dc,
                                  board_size, i + 1)
             ELSE 0

\* Extend with continue in place of break: a cell that does not match is
\* skipped and the loop goes on to the next one.
RECURSIVE ExtendSkip(_, _, _, _, _, _, _, _)
ExtendSkip(board, player, r, c, dr, dc, board_size, i) ==
    IF i > Reach
    THEN 0
    ELSE LET nr == r + dr * i
             nc == c + dc * i
         IN  (IF /\ 0 <= nr /\ nr < board_size
                 /\ 0 <= nc /\ nc < board_size
                 /\ board[nr][nc] = player
              THEN 1 ELSE 0)
             + ExtendSkip(board, player, r, c, dr, dc, board_size, i + 1)

RECURSIVE Extend(_, _, _, _, _, _, _, _)
Extend(board, player, r, c, dr, dc, board_size, i) ==
    IF i > Reach
    THEN 0
    ELSE LET nr == r + dr * i
             nc == c + dc * i
         IN  IF /\ 0 <= nr /\ nr < board_size
                /\ 0 <= nc /\ nc < board_size
                /\ board[nr][nc] = player
             THEN 1 + Extend(board, player, r, c, dr, dc, board_size, i + 1)
             ELSE 0

\* LineCount without the second loop: the opposite direction is not walked.
LineCountForward(board, player, r, c, dr, dc, board_size) ==
    1 + Extend(board, player, r, c, dr, dc, board_size, 1)

\* count of one iteration of "for dr, dc in directions": the placed cell,
\* the cells in the direction and the cells in the opposite direction.
LineCount(board, player, r, c, dr, dc, board_size) ==
    1 + Extend(board, player, r, c, dr, dc, board_size, 1)
      + Extend(board, player, r, c, -dr, -dc, board_size, 1)

\* _check_win with the test written count == 5.
check_win_exact(board, player, r, c, board_size) ==
    \E k \in DOMAIN directions :
        LineCount(board, player, r, c,
                  directions[k][1], directions[k][2], board_size) = WinLength

\* _check_win(board, player, r, c, board_size)
check_win(board, player, r, c, board_size) ==
    \E k \in DOMAIN directions :
        LineCount(board, player, r, c,
                  directions[k][1], directions[k][2], board_size) >= WinLength

\* ------------------------------------------------- parsing the response
\* A response is a sequence of one-character strings.
DigitChars == <<"0", "1", "2", "3", "4", "5", "6", "7", "8", "9">>
IsDigit(ch) == \E d \in DOMAIN DigitChars : DigitChars[d] = ch
IsSpace(ch) == ch \in {" ", "\t", "\n"}
DigitVal(ch) == (CHOOSE d \in DOMAIN DigitChars : DigitChars[d] = ch) - 1

\* the index after the longest run of digits starting at i (\d+ is greedy,
\* and what follows it in the pattern is never a digit).
RECURSIVE DigitsEnd(_, _)
DigitsEnd(s, i) ==
    IF i <= Len(s) /\ IsDigit(s[i]) THEN DigitsEnd(s, i + 1) ELSE i

\* the index after the longest run of whitespace starting at i (\s*).
RECURSIVE SpacesEnd(_, _)
SpacesEnd(s, i) ==
    IF i <= Len(s) /\ IsSpace(s[i]) THEN SpacesEnd(s, i + 1) ELSE i

\* int(match.group(k)) of the digits s[from..to-1]
RECURSIVE IntOf(_, _, _)
IntOf(s, from, to) ==
    IF from >= to THEN 0
    ELSE 10 * IntOf(s, from, to - 1) + DigitVal(s[to - 1])

\* does r'\((\d+),\s*(\d+)\)' match starting at index i
MatchAt(s, i) ==
    LET e1 == DigitsEnd(s, i + 1)
        b2 == SpacesEnd(s, e1 + 1)
        e2 == DigitsEnd(s, b2)
    IN  /\ s[i] = "("
        /\ e1 > i + 1
        /\ e1 <= Len(s) /\ s[e1] = ","
        /\ e2 > b2
        /\ e2 <= Len(s) /\ s[e2] = ")"

\* re.search(...): the leftmost match, as <<row, col>>, or NoMatch
Search(s) ==
    IF \E i \in 1..Len(s) : MatchAt(s, i)
    THEN LET i  == CHOOSE j \in 1..Len(s) :
                       MatchAt(s, j) /\ \A k \in 1..(j - 1) : ~MatchAt(s, k)
             e1 == DigitsEnd(s, i + 1)
             b2 == SpacesEnd(s, e1 + 1)
             e2 == DigitsEnd(s, b2)
         IN  <<IntOf(s, i + 1, e1), IntOf(s, b2, e2)>>
    ELSE NoMatch

\* ------------------------------------------------------ the move engine
\* InBounds without the lower bounds: row < board_size and col < board_size
InBoundsNoLower(row, col, board_size) ==
    row < board_size /\ col < board_size

\* InBounds with the upper bounds written <= board_size.
InBoundsInclusive(row, col, board_size) ==
    /\ 0 <= row /\ row <= board_size
    /\ 0 <= col /\ col <= board_size

\* 0 <= row < board_size and 0 <= col < board_size
InBounds(row, col, board_size) ==
    /\ 0 <= row /\ row < board_size
    /\ 0 <= col /\ col < board_size

\* Occupied written board[row][col] == 2: only the opponent of the first
\* player blocks a cell.
OccupiedByTwo(board, row, col) == Item(Item(board, row), col) = 2

\* board[row][col] != 0
Occupied(board, row, col) == Item(Item(board, row), col) # 0

\* next_player without the switch: the mover keeps the turn.
next_player_same(current_player) == current_player

\* next_player = 3 - current_player
next_player(current_player) == 3 - current_player

\* the body of verify_score testing is_draw before the win.
applyMove_draw_first(identity, row, col) ==
    LET board == identity.board
        current_player == identity.current_player
        board_size == BoardLen(board)
        placed == PlaceOnCopy(board, row, col, current_player)
        new_board == placed.new_board
        input == [identity EXCEPT !.board = placed.board]
        cell == <<Position(board, row), Position(board, col)>>
    IN  IF ~InBounds(row, col, board_size)
        THEN [score |-> -10, identity |-> identity, input |-> identity,
              outcome |-> "OutOfBounds", reads |-> {}]
        ELSE IF ~(HasItem(board, row) /\ HasItem(Item(board, row), col))
        THEN [score |-> 0, identity |-> identity, input |-> identity,
              outcome |-> "IndexError", reads |-> {}]
        ELSE IF Occupied(board, row, col)
        THEN [score |-> -10, identity |-> identity, input |-> identity,
              outcome |-> "CellOccupied", reads |-> {cell}]
        ELSE IF IsFull(new_board)
        THEN [score |-> 0,
              identity |-> [board |-> new_board,
                            current_player |-> current_player,
                            game_over |-> TRUE,
                            winner |-> None],
              input |-> input,
              outcome |-> "Draw", reads |-> {cell}]
        ELSE IF check_win(new_board, current_player, row, col, board_size)
        THEN [score |-> 100,
              identity |-> [board |-> new_board,
                            current_player |-> current_player,
                            game_over |-> TRUE,
                            winner |-> current_player],
              input |-> input,
              outcome |-> "Win", reads |-> {cell}]
        ELSE [score |-> 1,
              identity |-> [board |-> new_board,
                            current_player |-> next_player(current_player),
                            game_over |-> FALSE],
              input |-> input,
              outcome |-> "Continue", reads |-> {cell}]

\* The body of verify_score after the parse, entered with the coordinate
\* pair (row, col).  The result carries the score, the returned identity,
\* the return statement taken (outcome), the cells of the input board
\* read by the legality checks, and the dict that was passed in as it is
\* when the call ends (input).  A subscript that raises IndexError ends
\* the call without a return value: the outcome is "IndexError" and the
\* caller keeps the snapshot it had.
applyMove(identity, row, col) ==
    LET board == identity.board
        current_player == identity.current_player
        board_size == BoardLen(board)
        placed == PlaceOnCopy(board, row, col, current_player)
        new_board == placed.new_board
        input == [identity EXCEPT !.board = placed.board]
        cell == <<Position(board, row), Position(board, col)>>
    IN  IF ~InBounds(row, col, board_size)
        THEN [score |-> -10, identity |-> identity, input |-> identity,
              outcome |-> "OutOfBounds", reads |-> {}]
        ELSE IF ~(HasItem(board, row) /\ HasItem(Item(board, row), col))
        THEN [score |-> 0, identity |-> identity, input |-> identity,
              outcome |-> "IndexError", reads |-> {}]
        ELSE IF Occupied(board, row, col)
        THEN [score |-> -10, identity |-> identity, input |-> identity,
              outcome |-> "CellOccupied", reads |-> {cell}]
        ELSE IF check_win(new_board, current_player, row, col, board_size)
        THEN [score |-> 100,
              identity |-> [board |-> new_board,
                            current_player |-> current_player,
                            game_over |-> TRUE,
                            winner |-> current_player],
              input |-> input,
              outcome |-> "Win", reads |-> {cell}]
        ELSE IF IsFull(new_board)
        THEN [score |-> 0,
              identity |-> [board |-> new_board,
                            current_player |-> current_player,
                            game_over |-> TRUE,
                            winner |-> None],
              input |-> input,
              outcome |-> "Draw", reads |-> {cell}]
        ELSE [score |-> 1,
              identity |-> [board |-> new_board,
                            current_player |-> next_player(current_player),
                            game_over |-> FALSE],
              input |-> input,
              outcome |-> "Continue", reads |-> {cell}]

\* verify_score scoring a failed parse like an illegal move.
verify_score_parse10(response, identity) ==
    LET match == Search(response)
    IN  IF match = NoMatch
        THEN [score |-> -10, identity |-> identity, input |-> identity,
              outcome |-> "Unparsable", reads |-> {}, move |-> NoMatch]
        ELSE [move |-> match] @@ applyMove(identity, match[1], match[2])

\* verify_score(response, identity): parse, then the body above.  The
\* pattern has no sign, so row and col are never negative here.  The
\* except ValueError branch returns what the failed match returns
\* (-1.0 and the identity given); int() of a group of digits raises only
\* past the interpreter's digit limit, beyond the answers modelled.
verify_score(response, identity) ==
    LET match == Search(response)
    IN  IF match = NoMatch
        THEN [score |-> -1, identity |-> identity, input |-> identity,
              outcome |-> "Unparsable", reads |-> {}, move |-> NoMatch]
        ELSE [move |-> match] @@ applyMove(identity, match[1], match[2])

\* ------------------------------------------------------------- the state
VARIABLES
    identity,             \* the snapshot the caller holds
    self_board,           \* self.board of the engine instance
    self_current_player,  \* self.current_player of the engine instance
    call,                 \* the call made last, or the call about to be made
    old,                  \* the identity passed to the last call, as it
                          \* was when the call began
    passed,               \* the same dict as it is after the call
    move,                 \* the coordinate pair the last call worked on
    score,                \* the score the last call returned
    outcome,              \* the return statement the last call took
    reads,                \* the cells of the input board the last call read
                          \* up to the end of its legality checks
    answers,              \* the answers given so far, where recorded
    rival                 \* <<game>> of a second caller on the same engine,
                          \* <<>> without one

vars == <<identity, self_board, self_current_player, call, old, passed,
          move, score, outcome, reads, answers, rival>>

\* what the recording specifications add to the state
record == <<answers, rival>>

NoCall == [kind |-> "none"]
TextCall(response) == [kind |-> "text", response |-> response]
CoreCall(row, col) == [kind |-> "core", row |-> row, col |-> col]

\* the result of a call, whichever way the engine is entered
Result(c, id) ==
    IF c.kind = "text"
    THEN verify_score(c.response, id)
    ELSE [move |-> <<c.row, c.col>>] @@ applyMove(id, c.row, c.col)

\* InstanceAfter for an engine that keeps the board of the last call in
\* the instance (self.board = new_board).
InstanceAfterStore(board, res) == res.identity.board

\* self.board after a call that returned res: verify_score is a
\* classmethod and assigns no attribute.
InstanceAfter(board, res) == board

\* the caller makes call c on the snapshot it holds and keeps the
\* returned snapshot
Invoke(c) ==
    \E res \in {Result(c, identity)} :
        /\ call' = c
        /\ old' = identity
        /\ passed' = res.input
        /\ identity' = res.identity
        /\ move' = res.move
        /\ score' = res.score
        /\ outcome' = res.outcome
        /\ reads' = res.reads
        /\ self_board' = InstanceAfter(self_board, res)
        /\ UNCHANGED self_current_player

\* __init__(board_size = N)
Constructed ==
    /\ self_board = NewBoard(N)
    /\ self_current_player = 1

\* no call of verify_score has been made on the snapshot
NothingCalled ==
    /\ old = identity
    /\ passed = identity
    /\ move = NoMatch
    /\ score = 0
    /\ outcome = "NoCall"
    /\ reads = {}

\* game_over of a snapshot; a snapshot without the key is not over
Terminal(id) == "game_over" \in DOMAIN id /\ id.game_over

\* case_generator(): reset the instance and hand out a fresh snapshot
case_generator ==
    /\ self_board' = NewBoard(N)
    /\ self_current_player' = 1
    /\ identity' = [board |-> NewBoard(N), current_player |-> 1]
    /\ call' = NoCall
    /\ old' = identity'
    /\ passed' = identity'
    /\ move' = NoMatch
    /\ score' = 0
    /\ outcome' = "NoCall"
    /\ reads' = {}

\* ------------------------------------------------- the text of an answer
\* decimal digits of n >= 0
RECURSIVE Dec(_)
Dec(n) == IF n < 10 THEN <<DigitChars[n + 1]>>
          ELSE Dec(n \div 10) \o <<DigitChars[(n % 10) + 1]>>

\* "(row,col)", the format prompt_func asks for
Render(row, col) == <<"(">> \o Dec(row) \o <<",">> \o Dec(col) \o <<")">>

\* ----------------------------------------------------------------------
\* Games: an episode is played through verify_score, one answer at a time.
\* ----------------------------------------------------------------------
\* the cells the answers of the modelled games name
PlayCells == {<<0, c>> : c \in 0..4} \cup {<<1, c>> : c \in 0..3}

\* a full board without three in a row: the stone at (r, c) follows
\* (r + 2c) mod 4, which alternates along rows and makes runs of two along
\* columns and both diagonals
Pattern(sw) ==
    [r \in Idx |-> [c \in Idx |->
        IF ((r + 2 * c) % 4 < 2) = (sw = 0) THEN 1 ELSE 2]]

StoneCount(board, p) ==
    Cardinality({rc \in (DOMAIN board) \X (DOMAIN board) :
                    board[rc[1]][rc[2]] = p})

\* a position late in a game: every cell outside PlayCells holds a stone
Prefilled(sw) ==
    [r \in Idx |-> [c \in Idx |->
        IF <<r, c>> \in PlayCells THEN 0 ELSE Pattern(sw)[r][c]]]

\* the stones of a position come from alternate moves, player 1 first
Balanced(board) ==
    StoneCount(board, 1) - StoneCount(board, 2) \in {0, 1}

\* the snapshot a Continue return gives for such a position; the counts
\* say who is to move
Midgames ==
    {[board |-> Prefilled(sw),
      current_player |->
          IF StoneCount(Prefilled(sw), 1) = StoneCount(Prefilled(sw), 2)
          THEN 1 ELSE 2,
      game_over |-> FALSE] :
        sw \in {s \in {0, 1} :
                   /\ Balanced(Prefilled(s))
                   /\ \A s2 \in 0..(s - 1) : ~Balanced(Prefilled(s2))}}

\* the snapshot case_generator returns
Fresh == [board |-> NewBoard(N), current_player |-> 1]

\* the answers of the modelled games: a cell of PlayCells in the asked
\* format, a cell off the board, and a text without a coordinate pair
GameResponses ==
    {Render(rc[1], rc[2]) : rc \in PlayCells}
        \cup {Render(N, 0), <<"p", "a", "s", "s">>}

GameInit ==
    /\ Constructed
    /\ identity \in {Fresh} \cup Midgames
    /\ call = NoCall
    /\ NothingCalled
    /\ answers = <<>>
    /\ rival = <<>>

\* the caller submits an answer for a game that is not over
Submit ==
    \E response \in GameResponses :
        /\ ~Terminal(identity)
        /\ Invoke(TextCall(response))
        /\ UNCHANGED record

\* the caller submits an answer although the snapshot says game_over
SubmitAfterEnd ==
    \E response \in GameResponses :
        /\ Terminal(identity)
        /\ Invoke(TextCall(response))
        /\ UNCHANGED record

\* the caller starts a new episode
NewEpisode == case_generator /\ UNCHANGED record

\* games whose caller stops at a terminal snapshot
GameNext == Submit \/ NewEpisode
SpecGame == GameInit /\ [][GameNext]_vars

\* games whose caller may go on after a terminal snapshot
MisuseNext == Submit \/ SubmitAfterEnd \/ NewEpisode
SpecMisuse == GameInit /\ [][MisuseNext]_vars

\* ----------------------------------------------------------------------
\* Single calls: the engine is a function of the snapshot and the answer,
\* so a call is made on each input of a family of boards and answers.
\* ----------------------------------------------------------------------
\* the target cells of the inputs: corners, edge midpoints and the centre
Targets == {0, N \div 2, N - 1} \X {0, N \div 2, N - 1}

\* the backgrounds of the inputs: the empty board and a full one
Backgrounds == {NewBoard(N), Pattern(0)}

\* background bg with the target cell t emptied and, along direction d,
\* a stones of p laid after t and b stones of p laid before t (the part
\* of an arm that leaves the board is dropped)
Armed(bg, t, d, p, a, b) ==
    [r \in Idx |-> [c \in Idx |->
        IF <<r, c>> = t THEN 0
        ELSE IF \E i \in 1..a : <<r, c>> = <<t[1] + i * d[1], t[2] + i * d[2]>>
             THEN p
        ELSE IF \E i \in 1..b : <<r, c>> = <<t[1] - i * d[1], t[2] - i * d[2]>>
             THEN p
        ELSE bg[r][c]]]

\* the snapshot holding a board: what case_generator returns for the empty
\* board, what a Continue return looks like for any other
Snapshot(board, current_player) ==
    IF board = NewBoard(N)
    THEN [board |-> board, current_player |-> current_player]
    ELSE [board |-> board, current_player |-> current_player,
          game_over |-> FALSE]

\* answers about the cell (r, c) in other shapes than Render: accepted by
\* the pattern, rejected by it, or parsed to another pair
Variants(r, c) ==
    { <<"(">> \o Dec(r) \o <<",", " ">> \o Dec(c) \o <<")">>,
      <<"(">> \o Dec(r) \o <<",", " ", "\t">> \o Dec(c) \o <<")">>,
      <<"I", " ">> \o Render(r, c) \o <<".">>,
      <<"(", "0">> \o Dec(r) \o <<",", "0", "0">> \o Dec(c) \o <<")">>,
      <<"(", "x", ")">> \o Render(r, c),
      <<"(", "3">> \o Render(r, c),
      Render(N, c),
      Render(r, N + 1),
      Render(N, N) \o Render(r, c),
      <<"(", "-", "1", ",">> \o Dec(c) \o <<")">>,
      <<"(", " ">> \o Dec(r) \o <<",">> \o Dec(c) \o <<")">>,
      <<"(">> \o Dec(r) \o <<" ", ",">> \o Dec(c) \o <<")">>,
      <<"(">> \o Dec(r) \o <<",">> \o Dec(c) \o <<" ", ")">>,
      <<"(">> \o Dec(r) \o <<",">> \o Dec(c),
      Dec(r) \o <<",">> \o Dec(c),
      <<>> }

\* coordinate pairs off the board on each side, next to the cell (r, c)
Outside(r, c) ==
    {<<-1, c>>, <<r, -1>>, <<N, c>>, <<r, N>>, <<-1, -1>>, <<N, N>>,
     <<r - N, c>>, <<r, c - N>>}

\* the calls made on every armed board: at the target cell (through the
\* text and directly) and at the cell next to it along the arm
MainCalls(t, d) ==
    {CoreCall(t[1], t[2]), TextCall(Render(t[1], t[2])),
     CoreCall(t[1] + d[1], t[2] + d[2])}

MainInput ==
    \E t \in Targets, k \in DOMAIN directions, bg \in Backgrounds,
       p \in Players, a \in 0..MaxRun, b \in 0..MaxRun, cp \in Players :
        /\ identity = Snapshot(Armed(bg, t, directions[k], p, a, b), cp)
        /\ call \in MainCalls(t, directions[k])

\* the calls made on some armed boards: every variant answer and every
\* pair off the board
EdgeCalls(t) ==
    {TextCall(v) : v \in Variants(t[1], t[2])}
        \cup {TextCall(Render(t[1], t[2] + 1))}
        \cup {CoreCall(rc[1], rc[2]) : rc \in Outside(t[1], t[2])}

EdgeInput ==
    \E t \in Targets, bg \in Backgrounds, p \in Players,
       a \in {0, MaxRun}, cp \in Players :
        /\ identity = Snapshot(Armed(bg, t, directions[1], p, a, 0), cp)
        /\ call \in EdgeCalls(t)

\* the board with v at the cell j steps before t along d, and w stones of
\* p at the start of the row after t's (d along the row) or of the column
\* after t's (d along the column)
Broken(board, t, d, p, j, v, w) ==
    [r \in Idx |-> [c \in Idx |->
        IF <<r, c>> = <<t[1] - j * d[1], t[2] - j * d[2]>> THEN v
        ELSE IF d = <<0, 1>> /\ r = t[1] + 1 /\ c < w THEN p
        ELSE IF d = <<1, 0>> /\ c = t[2] + 1 /\ r < w THEN p
        ELSE board[r][c]]]

\* lines of the mover with a gap or an opponent stone in them, and lines
\* that end at the edge with more stones where the next row or column
\* starts; the call is at the target cell
BrokenInput ==
    \E t \in Targets, k \in DOMAIN directions, p \in Players,
       a \in 0..MaxRun, b \in 0..(MaxRun + 1), j \in 1..MaxRun,
       v \in 0..2, w \in {0, 2} :
        /\ v # p
        /\ identity = Snapshot(Broken(Armed(NewBoard(N), t, directions[k],
                                            p, a, b),
                                      t, directions[k], p, j, v, w), p)
        /\ call \in {CoreCall(t[1], t[2]), TextCall(Render(t[1], t[2]))}

CallInit ==
    /\ Constructed
    /\ (MainInput \/ EdgeInput)
    /\ NothingCalled
    /\ answers = <<>>
    /\ rival = <<>>

\* verify_score(response, identity) on the input
VerifyScore ==
    /\ outcome = "NoCall"
    /\ call.kind = "text"
    /\ Invoke(call)
    /\ UNCHANGED record

\* the body of verify_score (from board = identity['board'] on) entered
\* with the input's coordinate pair, which may be negative
ApplyMove ==
    /\ outcome = "NoCall"
    /\ call.kind = "core"
    /\ Invoke(call)
    /\ UNCHANGED record

CallNext == VerifyScore \/ ApplyMove
SpecCall == CallInit /\ [][CallNext]_vars

\* ----------------------------------------------------------------------
\* Whole games: the caller moves until the snapshot says game_over.
\* Legal moves name the first empty cell in row order outside PlayCells
\* while there is one, then the first or the last empty cell of PlayCells,
\* so that games from the empty board run to their end, some won and some
\* drawn.
\* ----------------------------------------------------------------------
EmptyCells(board) == {rc \in Idx \X Idx : board[rc[1]][rc[2]] = 0}

FirstOf(cells) ==
    {rc \in cells :
        \A other \in cells : rc[1] * N + rc[2] <= other[1] * N + other[2]}

LastOf(cells) ==
    {rc \in cells :
        \A other \in cells : rc[1] * N + rc[2] >= other[1] * N + other[2]}

NextCells(board) ==
    IF EmptyCells(board) \ PlayCells # {}
    THEN FirstOf(EmptyCells(board) \ PlayCells)
    ELSE FirstOf(EmptyCells(board)) \cup LastOf(EmptyCells(board))

\* the answer names an empty cell of the board
NamesEmptyCell(response, board) ==
    /\ Search(response) # NoMatch
    /\ <<Search(response)[1], Search(response)[2]>> \in EmptyCells(board)

\* a legal move is made: the body of verify_score is entered with the
\* coordinates of an empty cell
SubmitLegal ==
    \E rc \in NextCells(identity.board) :
        /\ ~Terminal(identity)
        /\ Invoke(CoreCall(rc[1], rc[2]))
        /\ UNCHANGED record

\* the caller submits an answer that is no legal move
SubmitOther ==
    \E response \in GameResponses :
        /\ ~Terminal(identity)
        /\ ~NamesEmptyCell(response, identity.board)
        /\ Invoke(TextCall(response))
        /\ UNCHANGED record

WholeNext == SubmitLegal \/ SubmitOther

\* a legal move is eventually submitted while one exists
SpecWhole == GameInit /\ [][WholeNext]_vars /\ WF_vars(SubmitLegal)

\* one call on a board with a broken line
LinesInit ==
    /\ Constructed
    /\ BrokenInput
    /\ NothingCalled
    /\ answers = <<>>
    /\ rival = <<>>

SpecLines == LinesInit /\ [][CallNext]_vars

\* ----------------------------------------------------------------------
\* Recorded games: short games whose answers are kept, for two callers
\* on one engine and for one caller over several episodes.
\* ----------------------------------------------------------------------
\* a position after eight moves: player 1 holds (0,0)..(0,3), player 2
\* holds (1,0)..(1,3), player 1 is to move
NearEnd ==
    [board |-> [r \in Idx |-> [c \in Idx |->
                   IF r = 0 /\ c < 4 THEN 1
                   ELSE IF r = 1 /\ c < 4 THEN 2 ELSE 0]],
     current_player |-> 1,
     game_over |-> FALSE]

\* the answers of the recorded games
ShortResponses ==
    {Render(0, 4), Render(1, 4), Render(0, 0), <<"p", "a", "s", "s">>}

\* the game of the second caller: where it began, the answers given, the
\* snapshot held, and what the last call returned
RivalGame(start, given, id, res_score, res_outcome) ==
    [start |-> start, answers |-> given, identity |-> id,
     score |-> res_score, outcome |-> res_outcome]

TwoInit ==
    /\ Constructed
    /\ identity = NearEnd
    /\ call = NoCall
    /\ NothingCalled
    /\ answers = <<>>
    /\ \E start \in {Fresh, NearEnd} :
          rival = <<RivalGame(start, <<>>, start, 0, "NoCall")>>

\* the first caller answers in its game
AnswerFirst ==
    \E response \in ShortResponses :
        /\ ~Terminal(identity)
        /\ Len(answers) < MaxAnswers
        /\ Invoke(TextCall(response))
        /\ answers' = Append(answers, response)
        /\ UNCHANGED rival

\* the second caller answers in its game, through the same verify_score
AnswerSecond ==
    \E response \in ShortResponses :
        /\ ~Terminal(rival[1].identity)
        /\ Len(rival[1].answers) < MaxAnswers
        /\ \E res \in {verify_score(response, rival[1].identity)} :
              /\ rival' = <<RivalGame(rival[1].start,
                                      Append(rival[1].answers, response),
                                      res.identity, res.score, res.outcome)>>
              /\ self_board' = InstanceAfter(self_board, res)
        /\ UNCHANGED <<identity, self_current_player, call, old, passed,
                       move, score, outcome, reads, answers>>

TwoNext == AnswerFirst \/ AnswerSecond
SpecTwo == TwoInit /\ [][TwoNext]_vars

EpisodesInit ==
    /\ Constructed
    /\ identity \in {Fresh, NearEnd}
    /\ call = NoCall
    /\ NothingCalled
    /\ answers = <<>>
    /\ rival = <<>>

\* the caller answers; the answers of all episodes are kept
Answer ==
    \E response \in ShortResponses :
        /\ ~Terminal(identity)
        /\ Len(answers) < MaxAnswers
        /\ Invoke(TextCall(response))
        /\ answers' = Append(answers, response)
        /\ UNCHANGED rival

EpisodesNext == Answer \/ NewEpisode
SpecEpisodes == EpisodesInit /\ [][EpisodesNext]_vars

\* ----------------------------------------------------------------------
\* Properties
\* ----------------------------------------------------------------------
\* a call has returned
Called == outcome # "NoCall"

\* the call worked on a coordinate pair that names a cell of the board
OnBoard == move # NoMatch /\ move[1] \in Idx /\ move[2] \in Idx

\* the cell the call named, on the board passed to the call
OldCell == old.board[move[1]][move[2]]

\* the call named an empty cell of the board
Legal == OnBoard /\ OldCell = 0

\* the call placed a stone
Accepted == outcome \in {"Win", "Draw", "Continue"}

\* (r, c) is cell number j (0..4) of five cells in a row along
\* directions[k], all on the board, and the other four hold p
FourAt(board, p, r, c, k, j) ==
    \A i \in 0..4 :
        i # j =>
            LET rr == r + (i - j) * directions[k][1]
                cc == c + (i - j) * directions[k][2]
            IN  rr \in Idx /\ cc \in Idx /\ board[rr][cc] = p

FourAround(board, p, r, c) ==
    \E k \in DOMAIN directions, j \in 0..4 : FourAt(board, p, r, c, k, j)

\* C1: a stone placed on an empty cell that makes an unbroken line of five
\* with four stones the mover already has, along any of the four
\* orientations and at any place of the line, wins.
C1_FifthStoneWins ==
    (Called /\ Legal
        /\ FourAround(old.board, old.current_player, move[1], move[2]))
    => outcome = "Win"

\* a win by a stone placed inside an anti-diagonal line, two stones of the
\* mover on each side
C1_Witness ==
    /\ Called /\ Legal
    /\ FourAt(old.board, old.current_player, move[1], move[2], 4, 2)
    /\ outcome = "Win"

\* C2: a call that names an occupied cell of the board is answered
\* CellOccupied and returns the snapshot it was given: same board, same
\* player to move.
C2_OccupiedRejected ==
    (Called /\ OnBoard /\ OldCell # 0)
    => /\ outcome = "CellOccupied"
       /\ identity = old
       /\ identity.board = old.board
       /\ identity.current_player = old.current_player

\* player 2 answers with a cell that holds a stone of player 1
C2_Witness ==
    /\ Called /\ OnBoard /\ OldCell = 1
    /\ call.kind = "text"
    /\ old.current_player = 2
    /\ outcome = "CellOccupied"
    /\ identity.current_player = 2

\* C3: a call with a coordinate pair off the board, on either side, is
\* answered OutOfBounds, returns the snapshot it was given and has read no
\* cell of the board.
C3_OutOfBoundsRejected ==
    (Called /\ move # NoMatch /\ ~OnBoard)
    => /\ outcome = "OutOfBounds"
       /\ identity = old
       /\ reads = {}

\* a negative row whose subscript would reach an empty cell of the last row
C3_Witness ==
    /\ Called /\ move # NoMatch
    /\ move[1] = -1 /\ move[2] \in Idx
    /\ old.board[N - 1][move[2]] = 0
    /\ outcome = "OutOfBounds"

\* no cell of the board is empty
NoEmptyCell(board) == \A r \in Idx, c \in Idx : board[r][c] # 0

\* the number of cells holding p met from (r, c), not counting it, going
\* along (dr, dc) up to the first other cell or the edge of the board
RECURSIVE Ray(_, _, _, _, _, _)
Ray(board, p, r, c, dr, dc) ==
    IF r + dr \in Idx /\ c + dc \in Idx /\ board[r + dr][c + dc] = p
    THEN 1 + Ray(board, p, r + dr, c + dc, dr, dc)
    ELSE 0

\* the length of the run of p through (r, c) along directions[k], for a
\* cell that holds p
RunThrough(board, p, r, c, k) ==
    1 + Ray(board, p, r, c, directions[k][1], directions[k][2])
      + Ray(board, p, r, c, -directions[k][1], -directions[k][2])

\* the longest run through the stone the call placed
PlacedRun(k) ==
    RunThrough(identity.board, old.current_player, move[1], move[2], k)

\* some player has five in a row somewhere on the board
HasFive(board) ==
    \E r \in Idx, c \in Idx, k \in DOMAIN directions :
        /\ board[r][c] # 0
        /\ Ray(board, board[r][c], r, c,
               directions[k][1], directions[k][2]) >= 4

\* C4: after Continue the other player is to move and game_over is false;
\* after Win or Draw the player to move is the one who moved and game_over
\* is true.
C4_TurnAfterOutcome ==
    /\ (Called /\ outcome = "Continue")
       => /\ identity.current_player = 3 - old.current_player
          /\ identity.current_player \in Players
          /\ identity.current_player # old.current_player
          /\ "game_over" \in DOMAIN identity
          /\ identity.game_over = FALSE
    /\ (Called /\ outcome \in {"Win", "Draw"})
       => /\ identity.current_player = old.current_player
          /\ "game_over" \in DOMAIN identity
          /\ identity.game_over = TRUE

\* player 2 moves and the game continues with player 1
C4_Witness ==
    /\ Called /\ outcome = "Continue"
    /\ old.current_player = 2
    /\ identity.current_player = 1

\* C5: a stone placed on the last empty cell, leaving no five in a row on
\* the board, gives Draw, game_over true and no winner.
C5_FullBoardDraw ==
    (Called /\ Accepted /\ Legal
        /\ NoEmptyCell(identity.board) /\ ~HasFive(identity.board))
    => /\ outcome = "Draw"
       /\ score = 0
       /\ "game_over" \in DOMAIN identity /\ identity.game_over = TRUE
       /\ "winner" \in DOMAIN identity /\ identity.winner = None

\* the last empty cell is filled next to three stones of the mover
C5_Witness ==
    /\ Called /\ Legal
    /\ NoEmptyCell(identity.board) /\ ~HasFive(identity.board)
    /\ \E k \in DOMAIN directions : PlacedRun(k) = 4
    /\ outcome = "Draw"

\* C6: a call with a coordinate pair on a snapshot that is not terminal
\* ends in exactly one of the five outcomes, the one its input fixes, and
\* never in an error.
C6_TotalOutcome ==
    (Called /\ move # NoMatch /\ ~Terminal(old))
    => /\ outcome \in {"OutOfBounds", "CellOccupied", "Win", "Draw",
                       "Continue"}
       /\ outcome = "OutOfBounds" <=> ~OnBoard
       /\ outcome = "CellOccupied" <=> (OnBoard /\ OldCell # 0)
       /\ Accepted <=> Legal

\* the first coordinate past the board: row = board_size
C6_Witness ==
    /\ Called /\ ~Terminal(old)
    /\ move # NoMatch /\ move[1] = N /\ move[2] \in Idx
    /\ outcome = "OutOfBounds"

\* the score the table gives for what the call did
TableScore ==
    IF move = NoMatch THEN -1
    ELSE IF ~OnBoard THEN -10
    ELSE IF OldCell # 0 THEN -10
    ELSE IF \E k \in DOMAIN directions : PlacedRun(k) >= 5 THEN 100
    ELSE IF NoEmptyCell(identity.board) THEN 0
    ELSE 1

\* C7: the score is fixed by the outcome: -1.0 for an answer without a
\* coordinate pair, with the snapshot returned as given, -10.0 for
\* OutOfBounds and CellOccupied, +100.0 for Win, 0.0 for Draw, +1.0 for
\* Continue, and nothing else.
C7_ScoreTable ==
    Called
    => /\ score \in {-1, -10, 100, 0, 1}
       /\ score = TableScore
       /\ outcome = "Unparsable" <=> move = NoMatch
       /\ outcome = "Unparsable" => (score = -1 /\ identity = old)
       /\ outcome = "OutOfBounds" => score = -10
       /\ outcome = "CellOccupied" => score = -10
       /\ outcome = "Win" => score = 100
       /\ outcome = "Draw" => score = 0
       /\ outcome = "Continue" => score = 1

\* an answer with a negative row holds no coordinate pair of the pattern
C7_Witness ==
    /\ Called /\ call.kind = "text"
    /\ Len(call.response) > 2 /\ call.response[2] = "-"
    /\ outcome = "Unparsable" /\ score = -1 /\ identity = old

\* C8: a stone that completes a run of six or more wins like one that
\* completes a run of five.
C8_OverlineWins ==
    (Called /\ Legal /\ Accepted
        /\ \E k \in DOMAIN directions : PlacedRun(k) >= 6)
    => outcome = "Win"

\* the stone fills the gap between two runs of four: a run of nine
C8_Witness ==
    /\ Called /\ Legal
    /\ \E k \in DOMAIN directions :
          /\ PlacedRun(k) >= 9
          /\ Ray(old.board, old.current_player, move[1], move[2],
                 directions[k][1], directions[k][2]) >= 4
          /\ Ray(old.board, old.current_player, move[1], move[2],
                 -directions[k][1], -directions[k][2]) >= 4
    /\ outcome = "Win"

\* the board holds the stones of board0 and one more, of p at (r, c)
OneStoneMore(board, board0, r, c, p) ==
    \A rr \in Idx, cc \in Idx :
        board[rr][cc] = IF <<rr, cc>> = <<r, c>> THEN p ELSE board0[rr][cc]

\* The statement of C9 as claimed: a call on a snapshot with game_over
\* true returns the same board, the same player to move and game_over
\* true.
C9_TerminalIsFinal ==
    (Called /\ Terminal(old))
    => /\ identity.board = old.board
       /\ identity.current_player = old.current_player
       /\ Terminal(identity)

\* C9 (amended): the engine does not read game_over.  A call on a terminal
\* snapshot returns it unchanged exactly when the call names no empty
\* cell of the board, which is every call on a Draw snapshot, whose board
\* is full; a call that names an empty cell of a Won snapshot places the
\* stone of current_player as in a game that goes on.
C9_TerminalByConvention ==
    (Called /\ Terminal(old))
    => /\ ~Legal => (identity = old /\ ~Accepted)
       /\ Legal => /\ Accepted
                   /\ OneStoneMore(identity.board, old.board,
                                   move[1], move[2], old.current_player)
       /\ NoEmptyCell(old.board) => identity = old

\* a stone is placed on a Won snapshot and the game is reported to go on
C9_Witness ==
    /\ Called /\ Terminal(old)
    /\ old.winner # None
    /\ outcome = "Continue"
    /\ identity.game_over = FALSE
    /\ identity.board # old.board

\* player 1 stones minus player 2 stones
Lead(board) == StoneCount(board, 1) - StoneCount(board, 2)

\* the player whose turn the stone counts make it
OnTurn(board) == IF Lead(board) = 0 THEN 1 ELSE 2

\* C10: the players alternate strictly.  While the game goes on, player 1
\* is to move when both have as many stones and player 2 when player 1
\* has one more; every stone is placed by the player so on turn; a
\* rejected call leaves the turn and the board as they were.
C10_StrictAlternation ==
    /\ ~Terminal(identity)
       => /\ Lead(identity.board) \in {0, 1}
          /\ identity.current_player = OnTurn(identity.board)
    /\ (Called /\ Accepted)
       => /\ Lead(old.board) \in {0, 1}
          /\ old.current_player = OnTurn(old.board)
          /\ OneStoneMore(identity.board, old.board,
                          move[1], move[2], OnTurn(old.board))
    /\ (Called /\ outcome \in {"OutOfBounds", "CellOccupied"})
       => /\ identity.current_player = old.current_player
          /\ identity.board = old.board

\* in a game begun on the empty board, player 2, on turn after three
\* stones, names an occupied cell and is still on turn
C10_Witness ==
    /\ Called /\ outcome = "CellOccupied"
    /\ StoneCount(identity.board, 1) = 2
    /\ StoneCount(identity.board, 2) = 1
    /\ identity.current_player = 2
    /\ ~Terminal(identity)

\* player p has five in a row somewhere on the board
HasFiveOf(board, p) ==
    \E r \in Idx, c \in Idx, k \in DOMAIN directions :
        /\ board[r][c] = p
        /\ Ray(board, p, r, c, directions[k][1], directions[k][2]) >= 4

\* C11: in a game, the detector run on the cell just filled answers as a
\* scan of the whole board does: the move is a Win exactly when the board
\* with the new stone holds five in a row of the mover somewhere.
C11_LocalEqualsScan ==
    (Called /\ Accepted /\ ~Terminal(old))
    => (outcome = "Win"
            <=> HasFiveOf(identity.board, old.current_player))

\* player 1 wins a game begun on the empty board with the fifth stone
C11_Witness ==
    /\ Called /\ ~Terminal(old)
    /\ StoneCount(identity.board, 1) = 5
    /\ StoneCount(identity.board, 2) = 4
    /\ HasFiveOf(identity.board, 1)
    /\ outcome = "Win"

\* C12: an accepted move returns a board that is the board passed in with
\* one more stone, of the player who was to move, on the cell named, which
\* was empty; the dict passed in, board included, is after the call what
\* it was before.
C12_OldInNewOut ==
    (Called /\ Accepted)
    => /\ OnBoard /\ OldCell = 0
       /\ OneStoneMore(identity.board, old.board,
                       move[1], move[2], old.current_player)
       /\ passed = old
       /\ passed.board[move[1]][move[2]] = 0

\* after a move the caller holds two different boards: the one it passed
\* in, still without the stone, and the one returned
C12_Witness ==
    /\ Called /\ outcome = "Continue"
    /\ passed.board = old.board
    /\ passed.board[move[1]][move[2]] = 0
    /\ identity.board[move[1]][move[2]] = old.current_player
    /\ identity.board # passed.board

\* the snapshot a caller holds after giving the answers from number i on,
\* one after the other, to a game of its own that stands at id
RECURSIVE Alone(_, _, _)
Alone(id, given, i) ==
    IF i > Len(given) THEN id
    ELSE Alone(verify_score(given[i], id).identity, given, i + 1)

\* what the last of the answers returns in that game
LastAlone(start, given) ==
    verify_score(given[Len(given)],
                 Alone(start, SubSeq(given, 1, Len(given) - 1), 1))

\* both games are where they would be had each been played alone
AsAlone ==
    /\ identity = Alone(NearEnd, answers, 1)
    /\ answers # <<>>
       => /\ outcome = LastAlone(NearEnd, answers).outcome
          /\ score = LastAlone(NearEnd, answers).score
    /\ rival[1].identity = Alone(rival[1].start, rival[1].answers, 1)
    /\ rival[1].answers # <<>>
       => /\ rival[1].outcome
                = LastAlone(rival[1].start, rival[1].answers).outcome
          /\ rival[1].score
                = LastAlone(rival[1].start, rival[1].answers).score

\* a call of one game leaves the other game and the engine as they were
NothingShared ==
    /\ answers' # answers
       => /\ rival' = rival
          /\ passed' = identity
    /\ rival' # rival
       => /\ identity' = identity /\ passed' = passed /\ old' = old
          /\ outcome' = outcome /\ score' = score /\ answers' = answers
    /\ self_board' = self_board
    /\ self_current_player' = self_current_player

\* C13: two games played through the same engine in any interleaving do
\* not interfere: each game stands where its own answers put it when
\* played alone, with the same last outcome and score, and a call changes
\* nothing but the game it is given.
C13_GamesIndependent == []AsAlone /\ [][NothingShared]_vars

\* the second game is won while the first, begun on the same position,
\* has taken other answers and goes on
C13_Witness ==
    /\ rival # <<>>
    /\ rival[1].start = NearEnd
    /\ rival[1].outcome = "Win"
    /\ Len(answers) = 2
    /\ outcome = "Continue"
    /\ ~Terminal(identity)

\* the snapshot is the start of a game: N x N cells, all empty, player 1
\* to move, not over
StartOfGame(id) ==
    /\ DOMAIN id.board = Idx
    /\ \A r \in Idx : DOMAIN id.board[r] = Idx
    /\ \A r \in Idx, c \in Idx : id.board[r][c] = 0
    /\ id.current_player = 1
    /\ ~Terminal(id)

\* C14: every episode starts in progress: the snapshot case_generator hands
\* out (the only step after which no call has been made) has N x N empty
\* cells, player 1 to move and game_over = false, whatever was played
\* before on the instance.
C14_FreshEpisode ==
    [][call' = NoCall
          => /\ StartOfGame(identity')
             /\ StartOfGame([board |-> self_board',
                             current_player |-> self_current_player'])
             /\ "game_over" \in DOMAIN identity'
             /\ identity'.game_over = FALSE]_vars

\* C15: the win is tested before the draw: a stone on the last empty cell
\* of the board that completes a run of five or more of the mover is a
\* Win for the mover, scored 100, and not a Draw.
C15_WinBeforeDraw ==
    (Called /\ Legal /\ NoEmptyCell(identity.board)
        /\ \E k \in DOMAIN directions : PlacedRun(k) >= 5)
    => /\ outcome = "Win"
       /\ score = 100
       /\ identity.game_over = TRUE
       /\ identity.winner = old.current_player
       /\ identity.current_player = old.current_player

\* the last empty cell of a full board is filled and closes a run of five
\* or more
C15_Witness ==
    /\ Called /\ Legal /\ ~NoEmptyCell(old.board)
    /\ NoEmptyCell(identity.board)
    /\ \E k \in DOMAIN directions : PlacedRun(k) >= 5
    /\ outcome = "Win"
    /\ identity.winner = old.current_player

\* C16: only unbroken runs inside the board count: a stone whose run
\* through the placed cell is at most four long in each of the four
\* orientations is not a Win, whatever other stones of the mover lie on
\* the same lines past a gap or an opponent stone, or where the next row
\* or column starts.
C16_UnbrokenRunsOnly ==
    (Called /\ Legal /\ Accepted
        /\ \A k \in DOMAIN directions : PlacedRun(k) <= WinLength - 1)
    => outcome # "Win"

\* the stone ends a row holding five stones of the mover with a gap in
\* them, and the next row starts with two more: no Win
C16_Witness ==
    /\ Called /\ Legal /\ Accepted
    /\ move[2] = N - 1 /\ move[1] + 1 \in Idx
    /\ \A k \in DOMAIN directions : PlacedRun(k) <= WinLength - 1
    /\ PlacedRun(1) = 3
    /\ \A c \in 0..1 : identity.board[move[1] + 1][c] = old.current_player
    /\ Cardinality({c \in Idx :
            identity.board[move[1]][c] = old.current_player}) >= WinLength
    /\ outcome = "Continue"

\* C17: in a game every cell holds 0, 1 or 2, the player to move is 1 or
\* 2, the board is N x N, and a call leaves every occupied cell of the
\* board it was given as it was.
C17_StateWellFormed ==
    /\ DOMAIN identity.board = Idx
    /\ \A r \in Idx : DOMAIN identity.board[r] = Idx
    /\ \A r \in Idx, c \in Idx : identity.board[r][c] \in {0, 1, 2}
    /\ identity.current_player \in Players
    /\ Called =>
          \A r \in Idx, c \in Idx :
              old.board[r][c] # 0 => identity.board[r][c] = old.board[r][c]

\* a player answered with a cell that holds a stone of the other player:
\* the stone is still there
C17_Witness ==
    /\ Called /\ OnBoard
    /\ OldCell = 3 - old.current_player
    /\ identity.board[move[1]][move[2]] = 3 - old.current_player
    /\ StoneCount(identity.board, old.current_player) >= 2
    /\ outcome = "CellOccupied"

\* the game is won: over, with a winner
Won(id) == Terminal(id) /\ id.winner # None

\* C18: in a game a state that is not won holds no five in a row of either
\* player; a won state holds five in a row of the winner only, through the
\* cell placed last, and the winner is the player who placed it; the two
\* players never both hold five in a row.
C18_FiveOnlyForWinner ==
    /\ ~Won(identity) => ~HasFive(identity.board)
    /\ ~(HasFiveOf(identity.board, 1) /\ HasFiveOf(identity.board, 2))
    /\ Won(identity) =>
          /\ outcome = "Win"
          /\ identity.winner = old.current_player
          /\ identity.board[move[1]][move[2]] = identity.winner
          /\ old.board[move[1]][move[2]] = 0
          /\ \E k \in DOMAIN directions : PlacedRun(k) >= WinLength
          /\ HasFiveOf(identity.board, identity.winner)
          /\ ~HasFiveOf(identity.board, 3 - identity.winner)
          /\ ~HasFive(old.board)

\* a game won by a stone placed at the end of four: five in a row of the
\* winner and none of the other player
C18_Witness ==
    /\ Won(identity)
    /\ outcome = "Win"
    /\ HasFiveOf(identity.board, identity.winner)
    /\ ~HasFiveOf(identity.board, 3 - identity.winner)
    /\ \E k \in DOMAIN directions :
          /\ PlacedRun(k) >= WinLength
          /\ Ray(identity.board, old.current_player, move[1], move[2],
                 directions[k][1], directions[k][2]) = 0

\* the game is drawn: over, without a winner
Drawn(id) == Terminal(id) /\ id.winner = None

\* C19: a Draw snapshot absorbs every call although the engine does not
\* test game_over: its board is full, so a call with a coordinate pair is
\* answered OutOfBounds or CellOccupied, and every call returns the
\* snapshot unchanged; no Win, Draw or Continue follows a Draw.
C19_DrawAbsorbs ==
    (Called /\ Drawn(old))
    => /\ NoEmptyCell(old.board)
       /\ move # NoMatch => outcome \in {"OutOfBounds", "CellOccupied"}
       /\ move = NoMatch => outcome = "Unparsable"
       /\ score < 0
       /\ identity = old
       /\ Drawn(identity)

\* a cell of the board is named on a Draw snapshot: CellOccupied, and the
\* snapshot is still the Draw
C19_Witness ==
    /\ Called /\ Drawn(old)
    /\ OnBoard
    /\ outcome = "CellOccupied"
    /\ identity = old

\* C20: every game ends.  A call that places a stone leaves one empty cell
\* less, a call that is rejected leaves as many, a game that is not over
\* has an empty cell left, and when a legal move is eventually submitted
\* while one exists the game reaches a snapshot with game_over true, after
\* at most N * N placed stones.
C20_GamesTerminate ==
    /\ [](/\ Called /\ Accepted =>
                Cardinality(EmptyCells(identity.board))
                    = Cardinality(EmptyCells(old.board)) - 1
          /\ Called /\ ~Accepted =>
                Cardinality(EmptyCells(identity.board))
                    = Cardinality(EmptyCells(old.board))
          /\ ~Terminal(identity) => EmptyCells(identity.board) # {}
          /\ N * N - Cardinality(EmptyCells(identity.board)) \in 0..(N * N))
    /\ <>Terminal(identity)

\* a game ends with the stone on the last empty cell of the board
C20_Witness ==
    /\ Called /\ Accepted
    /\ Cardinality(EmptyCells(old.board)) = 1
    /\ EmptyCells(identity.board) = {}
    /\ Terminal(identity)

====
